---- MODULE Spec2Model ----
(***************************************************************************)
(* get_mut_drop_weak (src/src/lib.rs): exclusive access to the payload of  *)
(* an Arc, relocating the payload into a fresh Arc when only Weak handles  *)
(* stand in the way.  One thread (the caller) owns the handle variable     *)
(* `arc` and runs get_mut_drop_weak on it one statement at a time; the     *)
(* other threads hold OwnerHandles and WeakHandles to the same cells and   *)
(* clone, downgrade, upgrade and drop them between any two statements.     *)
(***************************************************************************)
EXTENDS Integers, FiniteSets

\* Number of cell addresses the allocator can hand out.
MaxCells == 3
\* Most OwnerHandles, and most WeakHandles, the other threads hold on one cell.
MaxHandles == 2
\* Payload values are 0..MaxVal.
MaxVal == 1

Cells == 1..MaxCells
NoCell == 0
Val == 0..MaxVal
NoValue == -1

VARIABLES
    heap,         \* cell address -> [live, strong, weak, data, val]
    ownerH,       \* cell -> OwnerHandles the other threads hold on it
    weakH,        \* cell -> WeakHandles held on it
    arc,          \* the caller's handle variable: the cell it references
    arc_out,      \* TRUE while `arc` has been read out by ptr::read (lib.rs:56)
    pc,           \* the caller's position
    preallocated_arc,  \* lib.rs:50
    original_arc,      \* lib.rs:56
    value,             \* lib.rs:61: the payload in flight
    teardowns,    \* how many times the payload's Drop::drop has run
    call,         \* what the cell held when the call made its first check
    quiet,        \* no other thread has acted since the current call began
    n_alloc,      \* allocations made by the current call
    n_try,        \* Arc::try_unwrap attempts made by the current call
    n_steps       \* statements executed by the current call

vars == <<heap, ownerH, weakH, arc, arc_out, pc, preallocated_arc, original_arc,
          value, teardowns, call, quiet, n_alloc, n_try, n_steps>>

callerVars == <<arc, arc_out, pc, preallocated_arc, original_arc, value, call,
                n_alloc, n_try, n_steps>>

\* Another thread has acted: a call in progress, or returned and not yet
\* released, is no longer undisturbed.
Disturb == quiet' = (quiet /\ pc \in {"idle", "dropped"})

FreeCell == [live |-> FALSE, strong |-> 0, weak |-> 0, data |-> "none", val |-> 0]

\* Arc::new(v): a fresh cell with one owner, no Weak, the payload constructed.
NewCell(v) == [live |-> TRUE, strong |-> 1, weak |-> 0, data |-> "valid", val |-> v]

\* Arc::new_uninit(): a fresh cell with one owner whose slot is not initialised.
UninitCell == [live |-> TRUE, strong |-> 1, weak |-> 0, data |-> "uninit", val |-> 0]

\* Arc::strong_count / Arc::weak_count
strong_count(c) == heap[c].strong
weak_count(c) == heap[c].weak

\* Mutants of is_unique: the weak counter is not looked at; the weak counter is
\* compared with 1, as the raw counter that counts the owners' implicit Weak.
is_unique_strong_only(c) == strong_count(c) = 1
is_unique_weak_one(c) == strong_count(c) = 1 /\ weak_count(c) = 1

\* Arc::get_mut(arc).is_some(): the handle is the only handle of any kind.
is_unique(c) == strong_count(c) = 1 /\ weak_count(c) = 0

\* Mutant of is_shared: the comparison is off by one.
is_shared_gt2(c) == strong_count(c) > 2

\* Mutant of is_shared: the strong_count check is left out.
is_shared_never(c) == FALSE

\* Mutant of is_shared: any owner, the caller's included, counts as sharing.
is_shared_ge1(c) == strong_count(c) >= 1

\* Arc::strong_count(arc) > 1
is_shared(c) == strong_count(c) > 1

\* Mutants of can_unwrap: the take also demands that no Weak exists (the test
\* of Arc::get_mut); the take only demands some owner (a decrement that is not
\* a compare-and-swap from 1).
can_unwrap_no_weak(c) == strong_count(c) = 1 /\ weak_count(c) = 0
can_unwrap_any(c) == strong_count(c) >= 1

\* Mutant of can_unwrap: observe, then act: the take goes by the strong counter
\* the call saw at its first check, not by the counter at the instant of the take.
can_unwrap_stale(c) == call.strong = 1

\* Arc::try_unwrap succeeds: compare_exchange(1, 0) on the strong counter.
can_unwrap(c) == strong_count(c) = 1

\* Weak::upgrade succeeds iff the strong counter is not 0.
can_upgrade(c) == heap[c].live /\ strong_count(c) > 0

\* Does dropping one OwnerHandle of c run the payload's destructor?
DropRunsTeardown(c) == strong_count(c) = 1 /\ heap[c].data = "valid"

\* The heap after one OwnerHandle of c is dropped (Arc::drop).
DropStrong(h, c) ==
    IF h[c].strong > 1 THEN [h EXCEPT ![c].strong = @ - 1]
    ELSE IF h[c].weak = 0 THEN [h EXCEPT ![c] = FreeCell]
    ELSE [h EXCEPT ![c].strong = 0,
                   ![c].data = IF @ = "valid" THEN "dropped" ELSE @,
                   ![c].val = 0]

\* The heap after one WeakHandle of c is dropped (Weak::drop).
DropWeakH(h, c) ==
    IF h[c].weak = 1 /\ h[c].strong = 0 THEN [h EXCEPT ![c] = FreeCell]
    ELSE [h EXCEPT ![c].weak = @ - 1]

\* Mutant of TakeValue: the payload is copied out (ptr::read) and the copy left
\* in the cell still counts as the payload.
TakeValue_copies(h, c) ==
    IF h[c].weak = 0 THEN [h EXCEPT ![c] = FreeCell]
    ELSE [h EXCEPT ![c].strong = 0]

\* Mutant of TakeValue: the storage is released at the take although Weak
\* handles are left on the cell.
TakeValue_frees_early(h, c) == [h EXCEPT ![c] = FreeCell]

\* The heap after Arc::try_unwrap took the payload out of c: no owner is left,
\* the payload is moved out without running its destructor, and the storage
\* goes when no Weak is left either.
TakeValue(h, c) ==
    IF h[c].weak = 0 THEN [h EXCEPT ![c] = FreeCell]
    ELSE [h EXCEPT ![c].strong = 0, ![c].data = "moved", ![c].val = 0]

NoCall == [cell |-> NoCell, strong |-> 0, weak |-> 0, val |-> 0]

Init ==
    /\ \E v \in Val :
         heap = [c \in Cells |-> IF c = 1 THEN NewCell(v) ELSE FreeCell]
    /\ ownerH = [c \in Cells |-> 0]
    /\ weakH = [c \in Cells |-> 0]
    /\ arc = 1
    /\ arc_out = FALSE
    /\ pc = "idle"
    /\ preallocated_arc = NoCell
    /\ original_arc = NoCell
    /\ value = NoValue
    /\ teardowns = 0
    /\ call = NoCall
    /\ quiet = TRUE
    /\ n_alloc = 0
    /\ n_try = 0
    /\ n_steps = 0

-----------------------------------------------------------------------------
(* The other threads: tests.rs, simple_multithreaded and the handles the     *)
(* single-threaded tests make.                                               *)

envVars == <<heap, ownerH, weakH, teardowns>>

\* Arc::clone of an OwnerHandle another thread holds.
Clone(c) ==
    /\ ownerH[c] > 0 /\ ownerH[c] < MaxHandles
    /\ heap' = [heap EXCEPT ![c].strong = @ + 1]
    /\ ownerH' = [ownerH EXCEPT ![c] = @ + 1]
    /\ UNCHANGED <<weakH, teardowns, callerVars>>
    /\ Disturb

\* Arc::downgrade of an OwnerHandle another thread holds.
Downgrade(c) ==
    /\ ownerH[c] > 0 /\ weakH[c] < MaxHandles
    /\ heap' = [heap EXCEPT ![c].weak = @ + 1]
    /\ weakH' = [weakH EXCEPT ![c] = @ + 1]
    /\ UNCHANGED <<ownerH, teardowns, callerVars>>
    /\ Disturb

\* Weak::upgrade: a new OwnerHandle iff the strong counter is not 0.
Upgrade(c) ==
    /\ weakH[c] > 0 /\ ownerH[c] < MaxHandles
    /\ IF can_upgrade(c)
       THEN /\ heap' = [heap EXCEPT ![c].strong = @ + 1]
            /\ ownerH' = [ownerH EXCEPT ![c] = @ + 1]
       ELSE UNCHANGED <<heap, ownerH>>
    /\ UNCHANGED <<weakH, teardowns, callerVars>>
    /\ Disturb

\* drop of an OwnerHandle another thread holds.
DropOwner(c) ==
    /\ ownerH[c] > 0
    /\ teardowns' = IF DropRunsTeardown(c) THEN teardowns + 1 ELSE teardowns
    /\ heap' = DropStrong(heap, c)
    /\ ownerH' = [ownerH EXCEPT ![c] = @ - 1]
    /\ UNCHANGED <<weakH, callerVars>>
    /\ Disturb

\* drop of a WeakHandle.
DropWeak(c) ==
    /\ weakH[c] > 0
    /\ heap' = DropWeakH(heap, c)
    /\ weakH' = [weakH EXCEPT ![c] = @ - 1]
    /\ UNCHANGED <<ownerH, teardowns, callerVars>>
    /\ Disturb

-----------------------------------------------------------------------------
(* The caller between calls.                                                 *)

\* Arc::clone(&arc) by the caller; the clone is handed to another thread.
CallerClone ==
    /\ pc = "idle" /\ ownerH[arc] < MaxHandles
    /\ heap' = [heap EXCEPT ![arc].strong = @ + 1]
    /\ ownerH' = [ownerH EXCEPT ![arc] = @ + 1]
    /\ UNCHANGED <<weakH, teardowns, callerVars, quiet>>

\* Arc::downgrade(&arc) by the caller.
CallerDowngrade ==
    /\ pc = "idle" /\ weakH[arc] < MaxHandles
    /\ heap' = [heap EXCEPT ![arc].weak = @ + 1]
    /\ weakH' = [weakH EXCEPT ![arc] = @ + 1]
    /\ UNCHANGED <<ownerH, teardowns, callerVars, quiet>>

\* drop(arc): the caller gives its handle up for good.
DropArc ==
    /\ pc = "idle"
    /\ teardowns' = IF DropRunsTeardown(arc) THEN teardowns + 1 ELSE teardowns
    /\ heap' = DropStrong(heap, arc)
    /\ arc' = NoCell
    /\ pc' = "dropped"
    /\ UNCHANGED <<quiet, ownerH, weakH, arc_out, preallocated_arc,
                   original_arc, value, call, n_alloc, n_try, n_steps>>

OkStates == {"ok_exclusive", "ok_relocated"}
ErrStates == {"err_shared", "err_lost_race"}

\* *val_mut = ...: the caller writes through the reference it got.
Mutate ==
    /\ pc \in OkStates
    /\ heap' = [heap EXCEPT ![arc].val = (@ + 1) % (MaxVal + 1)]
    /\ pc' = "borrowed"
    /\ UNCHANGED <<quiet, ownerH, weakH, teardowns, arc, arc_out,
                   preallocated_arc, original_arc, value, call, n_alloc, n_try,
                   n_steps>>

\* The borrow the call returned ends.
Release ==
    /\ pc \in OkStates \cup ErrStates \cup {"borrowed"}
    /\ pc' = "idle"
    /\ call' = NoCall
    /\ quiet' = TRUE
    /\ n_alloc' = 0 /\ n_try' = 0 /\ n_steps' = 0
    /\ UNCHANGED <<envVars, arc, arc_out, preallocated_arc, original_arc, value>>

-----------------------------------------------------------------------------
(* get_mut_drop_weak, one statement per action.                              *)

\* Mutant of GetMut: the fast path is left out; every call goes on to the
\* strong_count check.
GetMut_no_fast_path ==
    /\ pc = "idle"
    /\ pc' = "strong_count"
    /\ call' = [cell |-> arc, strong |-> strong_count(arc),
                weak |-> weak_count(arc), val |-> heap[arc].val]
    /\ quiet' = TRUE
    /\ n_alloc' = 0 /\ n_try' = 0
    /\ n_steps' = 1
    /\ UNCHANGED <<envVars, arc, arc_out, preallocated_arc, original_arc, value>>

\* lib.rs:33-39: the call is entered and makes its first check.  `call` keeps
\* what the cell held at that instant.
GetMut ==
    /\ pc = "idle"
    /\ pc' = IF is_unique(arc) THEN "ok_exclusive" ELSE "strong_count"
    /\ call' = [cell |-> arc, strong |-> strong_count(arc),
                weak |-> weak_count(arc), val |-> heap[arc].val]
    /\ quiet' = TRUE
    /\ n_alloc' = 0 /\ n_try' = 0
    /\ n_steps' = 1
    /\ UNCHANGED <<envVars, arc, arc_out, preallocated_arc, original_arc, value>>

\* lib.rs:40-43
StrongCount ==
    /\ pc = "strong_count"
    /\ pc' = IF is_shared(arc) THEN "err_shared" ELSE "new_uninit"
    /\ n_steps' = n_steps + 1
    /\ UNCHANGED <<quiet, envVars, arc, arc_out, preallocated_arc, original_arc, value,
                   call, n_alloc, n_try>>

\* lib.rs:50, the allocation succeeds.
NewUninit ==
    /\ pc = "new_uninit"
    /\ \E n \in Cells :
         /\ ~heap[n].live
         /\ heap' = [heap EXCEPT ![n] = UninitCell]
         /\ preallocated_arc' = n
    /\ pc' = "ptr_read"
    /\ n_alloc' = n_alloc + 1
    /\ n_steps' = n_steps + 1
    /\ UNCHANGED <<quiet, ownerH, weakH, teardowns, arc, arc_out,
                   original_arc, value, call, n_try>>

\* Mutant of AllocFault: the allocation is made after ptr::read has read `arc`
\* out, so the fault strikes with the handle variable already emptied.
AllocFault_after_read ==
    /\ pc = "new_uninit"
    /\ pc' = "fault"
    /\ original_arc' = arc
    /\ arc_out' = TRUE
    /\ n_alloc' = n_alloc + 1
    /\ n_steps' = n_steps + 1
    /\ UNCHANGED <<quiet, envVars, arc, preallocated_arc, value, call, n_try>>

\* lib.rs:50, the allocation fails: Arc::new_uninit does not return.
AllocFault ==
    /\ pc = "new_uninit"
    /\ pc' = "fault"
    /\ n_alloc' = n_alloc + 1
    /\ n_steps' = n_steps + 1
    /\ UNCHANGED <<quiet, envVars, arc, arc_out, preallocated_arc, original_arc, value,
                   call, n_try>>

\* Mutant of PtrRead: the handle is cloned out of `arc` (Arc::clone), not read
\* out bitwise, so the strong counter goes up for a handle nobody else counts.
PtrRead_clones ==
    /\ pc = "ptr_read"
    /\ original_arc' = arc
    /\ arc_out' = TRUE
    /\ heap' = [heap EXCEPT ![arc].strong = @ + 1]
    /\ pc' = "try_unwrap"
    /\ n_steps' = n_steps + 1
    /\ UNCHANGED <<quiet, ownerH, weakH, teardowns, arc, preallocated_arc, value,
                   call, n_alloc, n_try>>

\* lib.rs:56
PtrRead ==
    /\ pc = "ptr_read"
    /\ original_arc' = arc
    /\ arc_out' = TRUE
    /\ pc' = "try_unwrap"
    /\ n_steps' = n_steps + 1
    /\ UNCHANGED <<quiet, envVars, arc, preallocated_arc, value, call, n_alloc, n_try>>

\* Mutant of TryUnwrap: the value taken out is dropped at the end of the Ok
\* arm (a copy, not the value, is written into the slot afterwards).
TryUnwrap_drops_value ==
    /\ pc = "try_unwrap"
    /\ IF can_unwrap(original_arc)
       THEN /\ value' = heap[original_arc].val
            /\ heap' = TakeValue(heap, original_arc)
            /\ original_arc' = NoCell
            /\ teardowns' = teardowns + 1
            /\ pc' = "slot_write"
       ELSE /\ UNCHANGED <<heap, value, original_arc, teardowns>>
            /\ pc' = "restore"
    /\ n_try' = n_try + 1
    /\ n_steps' = n_steps + 1
    /\ UNCHANGED <<quiet, ownerH, weakH, arc, arc_out, preallocated_arc, call,
                   n_alloc>>

\* Mutant of TryUnwrap: the strong counter is decremented before it is compared
\* (fetch_sub, not compare_exchange), so a failed take has already given the
\* caller's count up.
TryUnwrap_fetch_sub ==
    /\ pc = "try_unwrap"
    /\ IF can_unwrap(original_arc)
       THEN /\ value' = heap[original_arc].val
            /\ heap' = TakeValue(heap, original_arc)
            /\ original_arc' = NoCell
            /\ pc' = "slot_write"
       ELSE /\ heap' = [heap EXCEPT ![original_arc].strong = @ - 1]
            /\ UNCHANGED <<value, original_arc>>
            /\ pc' = "restore"
    /\ n_try' = n_try + 1
    /\ n_steps' = n_steps + 1
    /\ UNCHANGED <<quiet, ownerH, weakH, teardowns, arc, arc_out,
                   preallocated_arc, call, n_alloc>>

\* lib.rs:60
TryUnwrap ==
    /\ pc = "try_unwrap"
    /\ IF can_unwrap(original_arc)
       THEN /\ value' = heap[original_arc].val
            /\ heap' = TakeValue(heap, original_arc)
            /\ original_arc' = NoCell
            /\ pc' = "slot_write"
       ELSE /\ UNCHANGED <<heap, value, original_arc>>
            /\ pc' = "restore"
    /\ n_try' = n_try + 1
    /\ n_steps' = n_steps + 1
    /\ UNCHANGED <<quiet, ownerH, weakH, teardowns, arc, arc_out,
                   preallocated_arc, call, n_alloc>>

\* Mutant of SlotWrite: the value is dropped into nowhere: the slot is never
\* written and stays uninitialised.
SlotWrite_skipped ==
    /\ pc = "slot_write"
    /\ value' = NoValue
    /\ pc' = "ptr_write"
    /\ n_steps' = n_steps + 1
    /\ UNCHANGED <<quiet, envVars, arc, arc_out, preallocated_arc, original_arc,
                   call, n_alloc, n_try>>

\* lib.rs:66-67
SlotWrite ==
    /\ pc = "slot_write"
    /\ heap' = [heap EXCEPT ![preallocated_arc].data = "valid",
                            ![preallocated_arc].val = value]
    /\ value' = NoValue
    /\ pc' = "ptr_write"
    /\ n_steps' = n_steps + 1
    /\ UNCHANGED <<quiet, ownerH, weakH, teardowns, arc, arc_out,
                   preallocated_arc, original_arc, call, n_alloc, n_try>>

\* lib.rs:70-78
PtrWrite ==
    /\ pc = "ptr_write"
    /\ arc' = preallocated_arc
    /\ arc_out' = FALSE
    /\ preallocated_arc' = NoCell
    /\ pc' = "ok_relocated"
    /\ n_steps' = n_steps + 1
    /\ UNCHANGED <<quiet, envVars, original_arc, value, call, n_alloc, n_try>>

\* Mutant of Restore: the wrong handle is written back (the preallocated one),
\* and the original one is what goes out of scope.
Restore_wrong_handle ==
    /\ pc = "restore"
    /\ arc' = preallocated_arc
    /\ arc_out' = FALSE
    /\ preallocated_arc' = original_arc
    /\ original_arc' = NoCell
    /\ pc' = "drop_prealloc"
    /\ n_steps' = n_steps + 1
    /\ UNCHANGED <<quiet, envVars, value, call, n_alloc, n_try>>

\* Mutant of Restore: after a lost race the call starts over at the
\* strong_count check.
Restore_retry ==
    /\ pc = "restore"
    /\ arc' = original_arc
    /\ arc_out' = FALSE
    /\ original_arc' = NoCell
    /\ teardowns' = teardowns
    /\ heap' = DropStrong(heap, preallocated_arc)
    /\ preallocated_arc' = NoCell
    /\ pc' = "strong_count"
    /\ n_steps' = n_steps + 1
    /\ UNCHANGED <<quiet, ownerH, weakH, value, call, n_alloc, n_try>>

\* lib.rs:82-83
Restore ==
    /\ pc = "restore"
    /\ arc' = original_arc
    /\ arc_out' = FALSE
    /\ original_arc' = NoCell
    /\ pc' = "drop_prealloc"
    /\ n_steps' = n_steps + 1
    /\ UNCHANGED <<quiet, envVars, preallocated_arc, value, call, n_alloc, n_try>>

\* Mutant of DropPrealloc: the preallocated handle is forgotten (mem::forget),
\* not dropped, on the failure path.
DropPrealloc_forgets ==
    /\ pc = "drop_prealloc"
    /\ preallocated_arc' = NoCell
    /\ pc' = "err_lost_race"
    /\ n_steps' = n_steps + 1
    /\ UNCHANGED <<quiet, envVars, arc, arc_out, original_arc, value, call,
                   n_alloc, n_try>>

\* lib.rs:86-87: preallocated_arc goes out of scope on the failure path.
DropPrealloc ==
    /\ pc = "drop_prealloc"
    /\ teardowns' = IF DropRunsTeardown(preallocated_arc)
                    THEN teardowns + 1 ELSE teardowns
    /\ heap' = DropStrong(heap, preallocated_arc)
    /\ preallocated_arc' = NoCell
    /\ pc' = "err_lost_race"
    /\ n_steps' = n_steps + 1
    /\ UNCHANGED <<quiet, ownerH, weakH, arc, arc_out, original_arc,
                   value, call, n_alloc, n_try>>

\* One statement of get_mut_drop_weak.
Extract ==
    \/ GetMut
    \/ StrongCount
    \/ NewUninit
    \/ AllocFault
    \/ PtrRead
    \/ TryUnwrap
    \/ SlotWrite
    \/ PtrWrite
    \/ Restore
    \/ DropPrealloc

Next ==
    \/ \E c \in Cells : Clone(c)
    \/ \E c \in Cells : Downgrade(c)
    \/ \E c \in Cells : Upgrade(c)
    \/ \E c \in Cells : DropOwner(c)
    \/ \E c \in Cells : DropWeak(c)
    \/ CallerClone
    \/ CallerDowngrade
    \/ DropArc
    \/ Mutate
    \/ Release
    \/ GetMut
    \/ StrongCount
    \/ NewUninit
    \/ AllocFault
    \/ PtrRead
    \/ TryUnwrap
    \/ SlotWrite
    \/ PtrWrite
    \/ Restore
    \/ DropPrealloc

Spec == Init /\ [][Next]_vars

-----------------------------------------------------------------------------
(* Positions of the caller.                                                  *)

InCall == {"strong_count", "new_uninit", "ptr_read", "try_unwrap",
           "slot_write", "ptr_write", "restore", "drop_prealloc"}
Succeeded == OkStates \cup {"borrowed"}
Called == call.cell # NoCell

\* The caller's handle is the only handle of any kind on its cell.
Exclusive ==
    /\ arc # NoCell /\ ~arc_out
    /\ heap[arc].live
    /\ strong_count(arc) = 1 /\ weak_count(arc) = 0
    /\ ownerH[arc] = 0 /\ weakH[arc] = 0

\* Cells whose payload is constructed and neither moved out nor torn down.
ValidCells == {c \in Cells : heap[c].data = "valid"}

-----------------------------------------------------------------------------
\* C1: whenever get_mut_drop_weak has returned Ok, the cell `arc` references has
\* strong_count 1 and weak_count 0 and no other thread holds a handle of either
\* kind on it, for as long as the returned borrow lasts; and from any state in
\* which `arc` is the only handle on its cell, no step of another thread (any
\* step that is not the caller's own statement, clone or downgrade) ends that.
C1_ExclusiveOnSuccess ==
    /\ [](pc \in Succeeded => Exclusive)
    /\ [][(Exclusive /\ UNCHANGED callerVars /\ ~CallerClone /\ ~CallerDowngrade)
            => Exclusive']_vars

\* A success by relocation while another thread still holds a Weak on the old cell.
C1_Witness ==
    /\ pc = "ok_relocated"
    /\ \E c \in Cells : c # arc /\ weakH[c] > 0

\* C2: a call that finds strong_count 1 and weak_count 0 goes through the
\* Exclusive path only: it succeeds, `arc` stays on the same cell, both counters
\* and the payload are as they were, and nothing is allocated.
C2_ExclusiveInPlace ==
    (Called /\ call.strong = 1 /\ call.weak = 0) =>
        /\ pc \in {"ok_exclusive", "borrowed"}
        /\ arc = call.cell /\ ~arc_out
        /\ strong_count(arc) = 1 /\ weak_count(arc) = 0
        /\ heap[arc].data = "valid"
        /\ (pc # "borrowed" => heap[arc].val = call.val)
        /\ n_alloc = 0 /\ n_try = 0 /\ preallocated_arc = NoCell

C2_Witness ==
    /\ pc = "ok_exclusive"
    /\ call.strong = 1 /\ call.weak = 0

\* C3 as stated: a call entered with strong_count > 1 returns failure, with
\* `arc` on the same cell and the payload untouched.
C3_Original ==
    (Called /\ call.strong > 1 /\ pc \in OkStates \cup ErrStates) =>
        /\ pc \in ErrStates
        /\ arc = call.cell
        /\ heap[arc].data = "valid" /\ heap[arc].val = call.val

\* C3, amended: a call entered with strong_count > 1, during which no other
\* thread operates on a handle, returns failure at the strong_count check;
\* `arc` stays on the same cell; strong_count, weak_count and the payload are
\* what they were at entry; nothing was allocated or taken; Weak handles of the
\* cell can still upgrade.  The state a failed call leaves is the state it
\* found, so a repeated call decides the same way.
C3_SharedFails ==
    (Called /\ call.strong > 1 /\ quiet) =>
        /\ pc \in {"strong_count", "err_shared"}
        /\ arc = call.cell /\ ~arc_out
        /\ strong_count(arc) = call.strong /\ weak_count(arc) = call.weak
        /\ heap[arc].data = "valid" /\ heap[arc].val = call.val
        /\ n_alloc = 0 /\ n_try = 0 /\ preallocated_arc = NoCell
        /\ teardowns = 0
        /\ (weakH[arc] > 0 => can_upgrade(arc))

C3_Witness ==
    /\ pc = "err_shared" /\ quiet
    /\ call.strong > 1 /\ call.weak > 0 /\ weakH[arc] > 0

\* C4 as stated: a call entered with strong_count 1 and weak_count > 0
\* succeeds, and `arc` afterwards references a different cell with
\* strong_count 1, weak_count 0 and the same payload value.
C4_Original ==
    (Called /\ call.strong = 1 /\ call.weak > 0 /\ pc \in OkStates \cup ErrStates) =>
        /\ pc \in OkStates
        /\ arc # call.cell
        /\ strong_count(arc) = 1 /\ weak_count(arc) = 0
        /\ heap[arc].data = "valid" /\ heap[arc].val = call.val

\* C4, amended: a call entered with strong_count 1 and weak_count > 0, during
\* which no other thread operates on a handle, never returns failure and never
\* takes the Exclusive path; unless its allocation faults it returns Ok with
\* `arc` on a different cell, allocated by this call while the original was
\* still allocated, with strong_count 1, weak_count 0 and the payload value the
\* original cell held at entry.
C4_Relocates ==
    (Called /\ call.strong = 1 /\ call.weak > 0 /\ quiet) =>
        /\ pc \in {"strong_count", "new_uninit", "fault", "ptr_read",
                   "try_unwrap", "slot_write", "ptr_write", "ok_relocated",
                   "borrowed"}
        /\ pc \in Succeeded =>
             /\ arc # call.cell /\ ~arc_out
             /\ heap[call.cell].live /\ heap[call.cell].data = "moved"
             /\ n_alloc = 1
             /\ strong_count(arc) = 1 /\ weak_count(arc) = 0
             /\ heap[arc].data = "valid"
             /\ (pc = "ok_relocated" => heap[arc].val = call.val)

C4_Witness ==
    /\ pc = "ok_relocated" /\ quiet
    /\ call.strong = 1 /\ call.weak > 0

\* C5: a cell whose payload a relocation has moved out has strong_count 0 and no
\* OwnerHandle, so no Weak::upgrade on it succeeds; and the cell stays in that
\* state for as long as any WeakHandle on it is left: the severance is never
\* undone.
C5_SeveredForever ==
    /\ [](\A c \in Cells : heap[c].data = "moved" =>
            /\ strong_count(c) = 0 /\ ownerH[c] = 0
            /\ ~can_upgrade(c))
    /\ [][\A c \in Cells : (heap[c].data = "moved" /\ weakH'[c] > 0) =>
            (heap'[c].data = "moved" /\ ~can_upgrade(c)')]_vars

\* The call has returned Ok by relocation and a Weak on the old cell is live.
C5_Witness ==
    /\ pc = "ok_relocated"
    /\ weakH[call.cell] > 0 /\ heap[call.cell].data = "moved"

\* C6: the payload's destructor has run exactly once when no OwnerHandle is
\* left (the caller has dropped `arc` and no other thread holds one), and has
\* not run at all in any other state: not during a call, not after a call that
\* returned Ok or Err, not while any OwnerHandle is live.
C6_TeardownOnce ==
    teardowns = (IF pc = "dropped" /\ (\A c \in Cells : ownerH[c] = 0) THEN 1 ELSE 0)

\* Every handle is dropped after a relocation: the old cell is still held by a Weak.
C6_Witness ==
    /\ pc = "dropped" /\ teardowns = 1
    /\ \E c \in Cells : heap[c].data = "moved" /\ weakH[c] > 0

\* C7: a call that found another handle on the cell (strong_count > 1 or
\* weak_count > 0) and has returned is in one of two outcomes.  Ok: the call
\* allocated exactly one cell, `arc` is on it and is its only handle, and the
\* original cell has no owner and cannot be upgraded.  Err: `arc` is on the
\* original cell, whose counters are the handles the threads hold (the caller's
\* one plus the other threads'), and no cell the call allocated is left.  In
\* both the payload is in exactly one cell, the one `arc` references, with the
\* value it had, and has not been torn down.
C7_TwoOutcomes ==
    (Called /\ (call.strong > 1 \/ call.weak > 0) /\ pc \in OkStates \cup ErrStates) =>
        /\ ValidCells = {arc} /\ value = NoValue
        /\ heap[arc].val = call.val /\ teardowns = 0
        /\ ~arc_out /\ preallocated_arc = NoCell /\ original_arc = NoCell
        /\ \A c \in Cells : heap[c].data # "uninit"
        /\ pc \in OkStates =>
             /\ pc = "ok_relocated" /\ n_alloc = 1
             /\ arc # call.cell /\ Exclusive
             /\ ~can_upgrade(call.cell) /\ ownerH[call.cell] = 0
        /\ pc \in ErrStates =>
             /\ arc = call.cell /\ n_alloc <= 1
             /\ strong_count(arc) = 1 + ownerH[arc]
             /\ weak_count(arc) = weakH[arc]

\* A lost race with other threads still holding both kinds of handle.
C7_Witness ==
    /\ pc = "err_lost_race"
    /\ ownerH[arc] > 0 /\ weakH[arc] > 0 /\ ~quiet

\* C8: from the failed Arc::try_unwrap to the return of Err, the payload is
\* still in the original cell, valid and not torn down, and the original cell's
\* counters are the handles held (the caller's one plus the other threads'); at
\* the return `arc` references the original cell again.
C8_LostRaceRestores ==
    pc \in {"restore", "drop_prealloc", "err_lost_race"} =>
        /\ heap[call.cell].data = "valid" /\ heap[call.cell].val = call.val
        /\ value = NoValue /\ teardowns = 0
        /\ strong_count(call.cell) = 1 + ownerH[call.cell]
        /\ weak_count(call.cell) = weakH[call.cell]
        /\ n_try = 1
        /\ pc = "restore" => (original_arc = call.cell /\ arc_out)
        /\ pc # "restore" => (arc = call.cell /\ ~arc_out /\ original_arc = NoCell)

\* The race was lost to an upgrade whose handle is still live.
C8_Witness ==
    /\ pc = "err_lost_race"
    /\ ownerH[arc] > 0 /\ strong_count(arc) > 1

\* C9: when the allocation faults, `arc` references the original cell and has
\* not been read out, no take has been attempted, nothing has been allocated,
\* the payload is valid in the original cell with its value, and the cell's
\* counters are the handles held; with no other thread acting meanwhile they
\* are the counters the call found.
C9_FaultBeforeMutation ==
    pc = "fault" =>
        /\ arc = call.cell /\ ~arc_out /\ original_arc = NoCell
        /\ n_try = 0 /\ preallocated_arc = NoCell /\ value = NoValue
        /\ heap[arc].data = "valid" /\ heap[arc].val = call.val
        /\ teardowns = 0
        /\ strong_count(arc) = 1 + ownerH[arc]
        /\ weak_count(arc) = weakH[arc]
        /\ \A c \in Cells : heap[c].data # "uninit"
        /\ quiet => (strong_count(arc) = call.strong /\ weak_count(arc) = call.weak)

C9_Witness ==
    /\ pc = "fault"
    /\ weak_count(arc) > 0 /\ call.strong = 1

\* C10: a call makes at most one allocation and at most one Arc::try_unwrap,
\* executes at most seven statements, is never blocked (its next statement is
\* enabled whatever the other threads have done), and after its try_unwrap
\* never goes back to a check, an allocation or another try_unwrap.
C10_BoundedNoRetry ==
    /\ n_alloc <= 1 /\ n_try <= 1 /\ n_steps <= 7
    /\ pc \in InCall => (ENABLED Extract /\ n_steps < 7)
    /\ n_try = 1 => pc \notin {"strong_count", "new_uninit", "ptr_read", "try_unwrap"}
    /\ pc \in ErrStates => n_steps \in {2, 7}

\* The call reports a lost race although `arc` is the only owner again.
C10_Witness ==
    /\ pc = "err_lost_race"
    /\ strong_count(arc) = 1 /\ weak_count(arc) > 0

\* The places the payload is in: the cells that hold it valid, and the caller's
\* local `value` while the payload is in flight.
PayloadPlaces == Cardinality(ValidCells) + (IF value # NoValue THEN 1 ELSE 0)

\* C11: before its teardown the payload is in exactly one place: valid in one
\* cell, or in flight in the call (taken out of the original cell, not yet
\* written into the new one); after its teardown it is in none.
C11_PayloadInOnePlace ==
    PayloadPlaces = (IF teardowns = 0 THEN 1 ELSE 0)

\* The payload is in flight: out of the original cell, which a Weak keeps
\* allocated, and not yet in the new cell.
C11_Witness ==
    /\ pc = "slot_write" /\ value # NoValue
    /\ heap[call.cell].data = "moved" /\ heap[preallocated_arc].data = "uninit"

\* The cell the caller's handle references: `arc`, or the handle read out of it.
CallerCell ==
    IF pc = "dropped" THEN NoCell
    ELSE IF arc_out THEN original_arc ELSE arc

\* C12: the Arc::try_unwrap statement takes the value if and only if the
\* strong counter of the original cell is 1 at that step, and no cell whose
\* payload has been moved out is referenced by an OwnerHandle of any thread.
C12_TakeIffSoleOwner ==
    /\ [](\A c \in Cells : heap[c].data = "moved" =>
            (ownerH[c] = 0 /\ CallerCell # c))
    /\ [][(pc = "try_unwrap" /\ pc' # pc) =>
            ((pc' = "slot_write") <=> (heap[original_arc].strong = 1))]_vars

\* A Weak was upgraded before the take: the take has failed and the upgraded
\* handle is live on the intact cell.
C12_Witness ==
    /\ pc = "restore" /\ call.strong = 1
    /\ ownerH[original_arc] > 0 /\ heap[original_arc].data = "valid"

\* C13: every statement of a call that decides for success or goes on to the
\* allocation (get_mut found unique, strong_count found no sharing, try_unwrap
\* took the value) executes at an instant at which no other thread holds an
\* OwnerHandle on the cell, whatever Weak handles exist; and every statement
\* that decides for failure (strong_count found sharing, try_unwrap failed)
\* executes at an instant at which another thread does hold one.  So a call
\* during which another OwnerHandle stays live can only return Err, and a call
\* made when only Weak handles are left, none of them upgraded meanwhile,
\* cannot return Err.
C13_OtherOwnerDecides ==
    [][(pc \in {"idle", "strong_count", "try_unwrap"} /\ pc' # pc) =>
         /\ pc' \in {"ok_exclusive", "new_uninit", "slot_write"} =>
              ownerH[CallerCell] = 0
         /\ pc' \in {"err_shared", "restore"} => ownerH[CallerCell] > 0]_vars

\* A call has failed on sharing while other threads changed the Weak handles.
C13_Witness ==
    /\ pc = "err_shared" /\ ~quiet
    /\ ownerH[arc] > 0 /\ weak_count(arc) # call.weak

C15_Original ==
    \A c \in Cells : heap[c].live =>
        ((heap[c].data = "valid") <=> (strong_count(c) > 0))

\* C15, amended: every allocated cell other than the preallocated cell of a
\* call in progress has a valid payload if and only if its strong_count is > 0.
\* The preallocated cell has strong_count 1 and weak_count 0 from its
\* allocation on, is referenced by the call's local handle alone, and its slot
\* is uninitialised until slot.write; no other cell is ever uninitialised.
C15_ValidIffOwned ==
    \A c \in Cells : heap[c].live =>
        IF c = preallocated_arc
        THEN /\ strong_count(c) = 1 /\ weak_count(c) = 0
             /\ ownerH[c] = 0 /\ weakH[c] = 0 /\ CallerCell # c
             /\ (heap[c].data = "valid") <=> (pc = "ptr_write")
             /\ (heap[c].data = "uninit") <=> (pc # "ptr_write")
        ELSE (heap[c].data = "valid") <=> (strong_count(c) > 0)

\* A relocation is under way: the original cell is moved out and kept by a
\* Weak, the new cell has just been initialised.
C15_Witness ==
    /\ pc = "ptr_write"
    /\ heap[preallocated_arc].data = "valid"
    /\ heap[call.cell].live /\ heap[call.cell].data = "moved"

\* OwnerHandles on cell c: the other threads', the caller's own (in `arc` or
\* read out of it) and the call's handle on the cell it allocated.
Owners(c) ==
    ownerH[c] + (IF CallerCell = c THEN 1 ELSE 0)
              + (IF preallocated_arc = c THEN 1 ELSE 0)

\* C16: the strong_count of every cell is the number of live OwnerHandles that
\* reference it, the caller's handle counted once whether it is in `arc` or
\* read out by ptr::read; a cell that is not allocated has none.
C16_StrongIsOwners ==
    \A c \in Cells : strong_count(c) = Owners(c)

\* The caller's handle is read out while another thread holds an OwnerHandle
\* on the same cell.
C16_Witness ==
    /\ pc = "try_unwrap" /\ arc_out
    /\ ownerH[original_arc] > 0 /\ strong_count(original_arc) > 1

\* Handles of either kind that reference cell c.
Handles(c) == Owners(c) + weakH[c]

\* C17: a cell is allocated exactly while some handle references it, which is
\* exactly while one of its counters is not 0: it is freed by the step that
\* brings both to 0, and no handle is left on freed storage to free it again.
\* After a relocation the original cell stays allocated while a Weak on it is
\* live and is freed by the drop of the last one; the cell `arc` references is
\* freed when the caller drops `arc` as its only handle.
C17_FreedWhenBothZero ==
    /\ [](\A c \in Cells :
            /\ heap[c].live <=> (Handles(c) > 0)
            /\ heap[c].live <=> (strong_count(c) > 0 \/ weak_count(c) > 0)
            /\ weak_count(c) = weakH[c])
    /\ [][\A c \in Cells :
            /\ (heap[c].data = "moved" /\ weakH[c] > 0 /\ weakH'[c] = 0)
                   => ~heap'[c].live
            /\ (pc = "idle" /\ pc' = "dropped" /\ arc = c /\ is_unique(c))
                   => ~heap'[c].live]_vars

\* After a relocation and the caller's drop of the new handle, the original
\* cell is still allocated, held by a Weak alone.
C17_Witness ==
    /\ pc = "dropped"
    /\ \E c \in Cells : /\ heap[c].live /\ heap[c].data = "moved"
                        /\ weakH[c] > 0 /\ strong_count(c) = 0

\* C18: the step that ends a call that lost the race frees the cell the call
\* allocated, without running the payload's destructor; while a call is not
\* past its allocation, and after any call that returned Err, no cell is
\* uninitialised and the call holds no preallocated handle.
C18_PreallocFreedOnFailure ==
    /\ [](pc \in ErrStates \cup {"idle", "strong_count", "new_uninit"} =>
            /\ preallocated_arc = NoCell
            /\ \A c \in Cells : heap[c].data # "uninit")
    /\ [][(pc = "drop_prealloc" /\ pc' # pc) =>
            /\ pc' = "err_lost_race"
            /\ ~heap'[preallocated_arc].live
            /\ teardowns' = teardowns
            /\ \A c \in Cells : c # preallocated_arc => heap'[c] = heap[c]]_vars

\* The lost race has been reported and the cell allocated for it is gone.
C18_Witness ==
    /\ pc = "err_lost_race" /\ n_alloc = 1
    /\ Cardinality({c \in Cells : heap[c].live}) = 1

\* C19: a call that has returned Ok leaves `arc` the only handle on its cell,
\* the end of the borrow keeps it so, and a call entered in that state returns
\* Ok at its first check: `arc`, the cells (counters and payload) and the
\* handles are unchanged and nothing is allocated.
C19_SecondCallInPlace ==
    /\ [](pc \in Succeeded => Exclusive)
    /\ [][(pc \in Succeeded /\ pc' = "idle") =>
            (Exclusive' /\ arc' = arc /\ heap' = heap)]_vars
    /\ [][(pc = "idle" /\ Exclusive /\ pc' \notin {"idle", "dropped"}) =>
            /\ pc' = "ok_exclusive"
            /\ arc' = arc /\ heap' = heap
            /\ preallocated_arc' = NoCell /\ n_alloc' = 0 /\ n_try' = 0]_vars

\* The second call has succeeded in place on the cell a relocation produced.
C19_Witness ==
    /\ pc = "ok_exclusive"
    /\ \E c \in Cells : c # arc /\ heap[c].data = "moved"

====
